---- MODULE Spec2Model ----
(***************************************************************************)
(* A model of tui.h, a terminal user interface library on top of ncurses.  *)
(*                                                                         *)
(* Six specifications share this module:                                   *)
(*   SpecColor  the colour model: tui_color_inherit, tui_color_on,         *)
(*              tui_color_off, tui_window_fill, tui_border_draw            *)
(*   SpecText   the text reflow functions: tui_text_h_get, tui_text_w_get, *)
(*              tui_text_ws_get                                            *)
(*   Spec       the window tree of a program: tui_render, tui_delete       *)
(*   SpecFree   Spec with tui_window_free on single list entries as well   *)
(*   SpecRender tui_text_extract and tui_text_render of a display string   *)
(*   SpecScan   tui_text_w_get and the tui_text_h_get scans it runs, one   *)
(*              loop iteration per step; SpecScanLive adds fairness        *)
(* Each specification moves its own variables and leaves the others at     *)
(* their initial values.                                                   *)
(***************************************************************************)
EXTENDS Integers, Sequences, FiniteSets, TLC

VARIABLES
  \* ---- SpecColor
  color,      \* tui->color, the active colour
  arg,        \* the tui_color_t argument of the call
  ret,        \* the value tui_color_inherit returned
  prev,       \* tui->color as it was before the last tui_color_on / tui_border_draw
  cpc,        \* which colour operation ran last
  \* ---- SpecText
  text,       \* the plain text, a sequence of one-character strings
  max_w,      \* the width argument of tui_text_h_get
  h_ret,      \* what tui_text_h_get returned
  h_arg,      \* the height argument of tui_text_w_get / tui_text_ws_get
  w_ret,      \* what tui_text_w_get returned
  ws_ret,     \* what tui_text_ws_get left in ws
  tpc,        \* which text operation ran last
  \* ---- Spec
  tui,        \* the tui_t struct, and whether the caller's tui_t* is NULL
  menus,      \* the tui_menu_t structs
  win,        \* the tui_window_t structs (text and parent variants)
  heap,       \* every allocation: "none", "live" or "freed"
  bad_free,   \* allocations passed to free() / delwin() while not live
  screen,     \* the ncurses calls of the last tui_render, in order
  op,         \* the last operation on the tree
  \* ---- SpecRender
  string,     \* window->string, the display string with its escape sequences
  rect_w,     \* window->head.rect.w
  painted,    \* what the last tui_text_render did: window->text, h, the
              \* waddch calls in order, and how it read ws
  rpc,        \* which step of tui_window_text_render ran last
  \* ---- SpecScan
  search,     \* the locals of tui_text_w_get
  scan,       \* the locals of the tui_text_h_get call in progress
  spc         \* where the control is: "while", "for" or "done"

colorVars == <<color, arg, ret, prev, cpc>>
textVars  == <<text, max_w, h_ret, h_arg, w_ret, ws_ret, tpc>>
treeVars  == <<tui, menus, win, heap, bad_free, screen, op>>
renderVars == <<string, rect_w, painted, rpc>>
scanVars  == <<search, scan, spc>>
vars      == <<colorVars, textVars, treeVars, renderVars, scanVars>>

(***************************************************************************)
(* Bounds of the model.                                                    *)
(***************************************************************************)
MaxLen == 5      \* longest plain text enumerated
MaxNodes == 3    \* number of windows in the tree

(***************************************************************************)
(* Colours.  ncurses colours are 0..7, COLOR_NONE is -1.                   *)
(***************************************************************************)
COLOR_NONE == -1
COLOR_BLACK == 0
COLOR_RED == 1
COLOR_WHITE == 7

Channels == COLOR_NONE .. COLOR_WHITE
Colors == [fg : Channels, bg : Channels]

TUI_COLOR_NONE == [fg |-> COLOR_NONE, bg |-> COLOR_NONE]

tui_ncurses_color_get(c) == (c.fg + 1) * 9 + (c.bg + 1)

\* a plausible slip: the background is taken from the foreground channel
tui_color_inherit_swapped(last_color, c) ==
  [fg |-> IF c.fg = COLOR_NONE THEN last_color.fg ELSE c.fg,
   bg |-> IF c.bg = COLOR_NONE THEN last_color.fg ELSE c.bg]

tui_color_inherit(last_color, c) ==
  [fg |-> IF c.fg = COLOR_NONE THEN last_color.fg ELSE c.fg,
   bg |-> IF c.bg = COLOR_NONE THEN last_color.bg ELSE c.bg]

\* tui->color after tui_color_on(tui, c)
tui_color_on(active, c) == tui_color_inherit(active, c)

\* tui->color after tui_color_off(tui, c): the resolved colour is only used
\* for attroff, the active colour becomes TUI_COLOR_NONE
tui_color_off(active, c) == TUI_COLOR_NONE

\* tui->color after tui_window_fill(window)
tui_window_fill(active, declared) == tui_color_inherit(active, declared)

\* tui->color after tui_border_draw(window); border is NoBorder or a colour
NoBorder == [fg |-> -2, bg |-> -2]

tui_border_draw(active, border) ==
  IF border = NoBorder THEN active
  ELSE tui_color_off(tui_color_on(active, border), border)

(***************************************************************************)
(* Text reflow.  A text is a sequence of one-character strings; C indexes  *)
(* are 0-based, so text[index] in C is text[index + 1] here.               *)
(***************************************************************************)
Alphabet == {"a", " ", "\n"}

RECURSIVE HScan(_, _, _, _, _, _, _)
\* one iteration of the for loop of tui_text_h_get, then the rest
HScan(t, mw, index, h, line_w, space_index, last_space_index) ==
  IF index >= Len(t) THEN h
  ELSE
    LET letter == t[index + 1]
        sp == IF letter = " " THEN index ELSE space_index
    IN  IF letter = "\n"
          THEN HScan(t, mw, index + 1, h + 1, 0, sp, last_space_index)
        ELSE IF line_w >= mw
          THEN IF sp = last_space_index
                 THEN -1
                 ELSE HScan(t, mw, sp + 1, h + 1, 0, sp, sp)
        ELSE HScan(t, mw, index + 1, h, line_w + 1, sp, last_space_index)

tui_text_h_get(t, mw) == HScan(t, mw, 0, 1, 0, 0, 0)

RECURSIVE WSearch(_, _, _, _, _)
\* one iteration of the while loop of tui_text_w_get, then the rest
WSearch(t, h, left, right, min_w) ==
  IF left > right THEN min_w
  ELSE
    LET mid == (left + right) \div 2
        curr_h == tui_text_h_get(t, mid)
    IN  IF curr_h = -1 THEN WSearch(t, h, mid + 1, right, min_w)
        ELSE IF curr_h > h THEN WSearch(t, h, mid + 1, right, min_w)
        ELSE WSearch(t, h, left, mid - 1, mid)

\* a plausible slip: the feasible branch keeps searching the upper half
RECURSIVE WSearchUp(_, _, _, _, _)
WSearchUp(t, h, left, right, min_w) ==
  IF left > right THEN min_w
  ELSE
    LET mid == (left + right) \div 2
        curr_h == tui_text_h_get(t, mid)
    IN  IF curr_h = -1 THEN WSearchUp(t, h, mid + 1, right, min_w)
        ELSE IF curr_h > h THEN WSearchUp(t, h, mid + 1, right, min_w)
        ELSE WSearchUp(t, h, mid + 1, right, mid)

tui_text_w_get_upper(t, h) == WSearchUp(t, h, 1, Len(t), Len(t))

tui_text_w_get(t, h) == WSearch(t, h, 1, Len(t), Len(t))

\* ws after a store to ws[line_index]: inside the array the entry is written,
\* outside it the store is out of bounds
WsStore(r, line_index, value) ==
  IF line_index < r.h
    THEN [r EXCEPT !.ws[line_index + 1] = value,
                   !.written = @ \cup {line_index}]
    ELSE [r EXCEPT !.oob = TRUE]

RECURSIVE WsScan(_, _, _, _, _, _, _, _)
\* one iteration of the for loop of tui_text_ws_get, then the rest.
\* r.dropped collects the indexes of the spaces that are counted in no line:
\* those skipped at a line start and the one a forced break goes back to.
WsScan(t, h, mw, index, line_index, line_w, space_index, r) ==
  IF ~(index < Len(t) /\ line_index < h) THEN r
  ELSE
    LET letter == t[index + 1]
        sp == IF letter = " " THEN index ELSE space_index
        \* the if / else if chain: <<index, line_index, line_w, r>> after it
        s == IF letter = " " /\ line_w = 0
               THEN <<index, line_index, 0,
                      [r EXCEPT !.dropped = @ \cup {index}]>>
             ELSE IF letter = "\n"
               THEN <<index, line_index + 1, 0, WsStore(r, line_index, line_w)>>
             ELSE IF line_w >= mw
               THEN <<sp, line_index + 1, 0,
                      [WsStore(r, line_index, line_w - (index - sp))
                         EXCEPT !.dropped =
                           @ \cup (IF t[sp + 1] = " " THEN {sp} ELSE {})]>>
             ELSE <<index, line_index, line_w + 1, r>>
        \* store the width of the last line
        r2 == IF s[1] + 1 = Len(t) THEN WsStore(s[4], s[2], s[3]) ELSE s[4]
    IN  WsScan(t, h, mw, s[1] + 1, s[2], s[3], sp, r2)

\* ws as tui_text_ws_get(ws, text, h) leaves it; the caller's int ws[h] starts
\* uninitialized: entries outside r.written hold no defined value
tui_text_ws_get(t, h) ==
  WsScan(t, h, tui_text_w_get(t, h), 0, 0, 0, 0,
         [ws |-> [i \in 1 .. h |-> 0], h |-> h, written |-> {},
          oob |-> FALSE, dropped |-> {}])

(***************************************************************************)
(* Display strings.  A display string is a text with ANSI escape sequences *)
(* in it: the character ESC, then characters up to a closing "m".          *)
(***************************************************************************)
ESC == "ESC"    \* the character '\033'

DisplayAlphabet == Alphabet \cup {ESC, "m"}

RECURSIVE SkipEscape(_, _)
\* index after  while (index < length && string[index] != 'm') index++;
SkipEscape(s, index) ==
  IF index < Len(s) /\ s[index + 1] # "m" THEN SkipEscape(s, index + 1)
  ELSE index

RECURSIVE ExtractScan(_, _, _)
\* one iteration of the for loop of tui_text_extract, then the rest
ExtractScan(s, index, out) ==
  IF index >= Len(s) THEN out
  ELSE
    LET letter == s[index + 1]
    IN  IF letter = ESC
          THEN ExtractScan(s, SkipEscape(s, index) + 1, out)
          ELSE ExtractScan(s, index + 1, Append(out, letter))

tui_text_extract(s) == ExtractScan(s, 0, <<>>)

\* x / 2 as C divides: truncated towards zero
CHalf(x) == IF x >= 0 THEN x \div 2 ELSE -((-x) \div 2)

\* the value of ws[line_index].  int ws[h] is never initialized and
\* tui_text_ws_get may leave entries unwritten: such an entry, and any entry
\* outside the array, holds whatever the stack holds (garbage)
WsRead(r, line_index, garbage) ==
  IF line_index \in r.written THEN r.ws[line_index + 1] ELSE garbage

\* out after a read of ws[line_index]
WsReadNote(r, line_index, out) ==
  IF line_index \in r.written THEN out
  ELSE IF line_index >= 0 /\ line_index < r.h
    THEN [out EXCEPT !.uninit = TRUE]
    ELSE [out EXCEPT !.oob = TRUE]

RECURSIVE RenderScan(_, _, _, _, _, _, _, _, _)
\* one iteration of the for loop of tui_text_render, then the rest.  letter
\* is read before the escape sequence is skipped and is not read again; the
\* if that skips is followed by an if, not an else if.  out.calls logs each
\* wmove + waddch: the row and column (with rect.x = rect.y = 0 and
\* pos = TUI_POS_START, so that y_shift = 0), the character, and its index
\* in the string
RenderScan(s, w, r, garbage, index, line_index, line_w, y, out) ==
  IF index >= Len(s) THEN out
  ELSE
    LET letter == s[index + 1]
        skipped == IF letter = ESC THEN SkipEscape(s, index) ELSE index
        cur == WsRead(r, line_index, garbage)
        noted == WsReadNote(r, line_index, out)
    IN  IF letter = " " /\ line_w = 0
          THEN RenderScan(s, w, r, garbage, skipped + 1, line_index, 0, y, out)
        ELSE IF line_w >= cur
          THEN RenderScan(s, w, r, garbage, skipped + 1, line_index + 1, 0,
                          y + 1, noted)
        ELSE RenderScan(s, w, r, garbage, skipped + 1, line_index, line_w + 1,
                        y,
                        [noted EXCEPT !.calls =
                           Append(@, [y |-> y, x |-> CHalf(w - cur) + line_w,
                                      ch |-> letter, index |-> index])])

\* tui_text_render(window) with window->string = s, window->text = t and
\* rect.w = w
tui_text_render(s, t, w, garbage) ==
  LET h == tui_text_h_get(t, w)
  IN  RenderScan(s, w, tui_text_ws_get(t, h), garbage, 0, 0, 0, 0,
                 [calls |-> <<>>, uninit |-> FALSE, oob |-> FALSE])

(***************************************************************************)
(* Values the variables of a specification keep while another one runs.    *)
(***************************************************************************)
ColorIdle ==
  /\ color = TUI_COLOR_NONE /\ arg = TUI_COLOR_NONE /\ ret = TUI_COLOR_NONE
  /\ prev = TUI_COLOR_NONE /\ cpc = "idle"

TextIdle ==
  /\ text = <<>> /\ max_w = 1 /\ h_ret = 0 /\ h_arg = 0 /\ w_ret = 0
  /\ ws_ret = [ws |-> <<>>, h |-> 0, written |-> {}, oob |-> FALSE, dropped |-> {}]
  /\ tpc = "idle"

TreeIdle ==
  /\ tui = [is_null |-> TRUE] /\ menus = <<>> /\ win = <<>>
  /\ heap = <<>> /\ bad_free = {} /\ screen = <<>> /\ op = "idle"

NotPainted ==
  [text |-> <<>>, h |-> 0, calls |-> <<>>, uninit |-> FALSE, oob |-> FALSE,
   garbage |-> 0]

RenderIdle ==
  /\ string = <<>> /\ rect_w = 1 /\ painted = NotPainted /\ rpc = "idle"

ScanIdle ==
  /\ search = [text |-> <<>>] /\ scan = [index |-> 0] /\ spc = "idle"

(***************************************************************************)
(* SpecColor: the colour operations, from every active colour and every    *)
(* colour argument.                                                        *)
(***************************************************************************)
ColorInit ==
  /\ color \in Colors
  /\ arg \in Colors
  /\ ret = TUI_COLOR_NONE
  /\ prev = TUI_COLOR_NONE
  /\ cpc = "init"
  /\ TextIdle /\ TreeIdle /\ RenderIdle /\ ScanIdle

\* ret = tui_color_inherit(tui->color, arg)
ColorInherit ==
  /\ cpc = "init"
  /\ ret' = tui_color_inherit(color, arg)
  /\ cpc' = "inherit"
  /\ UNCHANGED <<color, arg, prev, textVars, treeVars, renderVars, scanVars>>

\* tui_color_on(tui, arg)
ColorOn ==
  /\ cpc = "init"
  /\ prev' = color
  /\ color' = tui_color_on(color, arg)
  /\ cpc' = "on"
  /\ UNCHANGED <<arg, ret, textVars, treeVars, renderVars, scanVars>>

\* tui_color_off(tui, arg), after the tui_color_on(tui, arg) it pairs with
ColorOff ==
  /\ cpc = "on"
  /\ color' = tui_color_off(color, arg)
  /\ cpc' = "off"
  /\ UNCHANGED <<arg, ret, prev, textVars, treeVars, renderVars, scanVars>>

\* tui_window_fill(window) of a window whose declared colour is arg
WindowFill ==
  /\ cpc = "init"
  /\ color' = tui_window_fill(color, arg)
  /\ prev' = color
  /\ cpc' = "fill"
  /\ UNCHANGED <<arg, ret, textVars, treeVars, renderVars, scanVars>>

\* tui_border_draw(window) of a container whose border has colour arg
BorderDraw ==
  /\ cpc = "init"
  /\ prev' = color
  /\ color' = tui_border_draw(color, arg)
  /\ cpc' = "border"
  /\ UNCHANGED <<arg, ret, textVars, treeVars, renderVars, scanVars>>

ColorNext == ColorInherit \/ ColorOn \/ ColorOff \/ WindowFill \/ BorderDraw

SpecColor == ColorInit /\ [][ColorNext]_vars

(***************************************************************************)
(* SpecText: the reflow functions, on every text over Alphabet of at most  *)
(* MaxLen characters and on the text "one two three".                      *)
(***************************************************************************)
Texts == UNION {[1 .. n -> Alphabet] : n \in 0 .. MaxLen}

\* "one two three"
OneTwoThree ==
  <<"a", "a", "a", " ", "a", "a", "a", " ", "a", "a", "a", "a", "a">>

Widths == 1 .. MaxLen + 1
Heights == 1 .. MaxLen + 1

TextInit ==
  /\ text \in Texts \cup {OneTwoThree}
  \* "one two three" is also wrapped at width 7
  /\ max_w \in Widths \cup (IF text = OneTwoThree THEN {7} ELSE {})
  /\ h_ret = 0 /\ h_arg = 0 /\ w_ret = 0
  /\ ws_ret = [ws |-> <<>>, h |-> 0, written |-> {}, oob |-> FALSE, dropped |-> {}]
  /\ tpc = "init"
  /\ ColorIdle /\ TreeIdle /\ RenderIdle /\ ScanIdle

\* h_ret = tui_text_h_get(text, max_w)
TextHGet ==
  /\ tpc = "init"
  /\ h_ret' = tui_text_h_get(text, max_w)
  /\ tpc' = "h"
  /\ UNCHANGED <<text, max_w, h_arg, w_ret, ws_ret, colorVars, treeVars,
                 renderVars, scanVars>>

\* w_ret = tui_text_w_get(text, h)
TextWGet ==
  /\ tpc = "init"
  /\ \E h \in Heights :
       /\ h_arg' = h
       /\ w_ret' = tui_text_w_get(text, h)
  /\ tpc' = "w"
  /\ UNCHANGED <<text, max_w, h_ret, ws_ret, colorVars, treeVars,
                 renderVars, scanVars>>

\* tui_text_ws_get(ws, text, h) with h the height tui_text_h_get returned, as
\* tui_text_render calls it; w_ret is the max_w it derives first
TextWsGet ==
  /\ tpc = "h"
  /\ h_arg' = h_ret
  /\ w_ret' = tui_text_w_get(text, h_ret)
  /\ ws_ret' = tui_text_ws_get(text, h_ret)
  /\ tpc' = "ws"
  /\ UNCHANGED <<text, max_w, h_ret, colorVars, treeVars, renderVars,
                 scanVars>>

TextNext == TextHGet \/ TextWGet \/ TextWsGet

SpecText == TextInit /\ [][TextNext]_vars

(***************************************************************************)
(* SpecRender: a text window is rendered, for every display string over    *)
(* DisplayAlphabet of at most MaxLen characters and every rect.w.          *)
(***************************************************************************)
Strings == UNION {[1 .. n -> DisplayAlphabet] : n \in 0 .. MaxLen}

\* what an int that was never written may hold
Garbage == {-1, 0, 1, MaxLen + 1}

RenderInit ==
  /\ string \in Strings
  /\ rect_w \in Widths
  /\ painted = NotPainted
  /\ rpc = "init"
  /\ ColorIdle /\ TextIdle /\ TreeIdle /\ ScanIdle

\* the text part of tui_window_text_render(window):
\* window->text = tui_text_extract(window->string); tui_text_render(window)
WindowTextRender ==
  /\ rpc = "init"
  /\ \E garbage \in Garbage :
       LET t == tui_text_extract(string)
           out == tui_text_render(string, t, rect_w, garbage)
       IN  painted' = [text |-> t, h |-> tui_text_h_get(t, rect_w),
                       calls |-> out.calls, uninit |-> out.uninit,
                       oob |-> out.oob, garbage |-> garbage]
  /\ rpc' = "render"
  /\ UNCHANGED <<string, rect_w, colorVars, textVars, treeVars, scanVars>>

RenderNext == WindowTextRender

SpecRender == RenderInit /\ [][RenderNext]_vars

(***************************************************************************)
(* SpecScan: tui_text_w_get(text, h) run one loop iteration per step, the  *)
(* iterations of the tui_text_h_get calls it makes included.  search holds *)
(* the locals of tui_text_w_get, scan those of tui_text_h_get.  Two fields *)
(* of search are history only: breaks counts the forced breaks that moved  *)
(* the index back to a space, fails the scans that returned -1.            *)
(***************************************************************************)
\* the locals of tui_text_h_get(text, max_w) when its for loop is entered
HEnter(mw) ==
  [max_w |-> mw, index |-> 0, h |-> 1, line_w |-> 0, space_index |-> 0,
   last_space_index |-> 0, ret |-> 0, returned |-> FALSE]

\* one iteration of the for loop of tui_text_h_get on text t, the index++
\* that follows it included; returned is set by the return -1
HIter(t, f) ==
  LET letter == t[f.index + 1]
      sp == IF letter = " " THEN f.index ELSE f.space_index
  IN  IF letter = "\n"
        THEN [f EXCEPT !.space_index = sp, !.line_w = 0, !.h = @ + 1,
                       !.index = @ + 1]
      ELSE IF f.line_w >= f.max_w
        THEN IF sp = f.last_space_index
               THEN [f EXCEPT !.space_index = sp, !.line_w = 0, !.h = @ + 1,
                              !.ret = -1, !.returned = TRUE]
               ELSE [f EXCEPT !.space_index = sp, !.line_w = 0, !.h = @ + 1,
                              !.index = sp + 1, !.last_space_index = sp]
      ELSE [f EXCEPT !.space_index = sp, !.line_w = @ + 1, !.index = @ + 1]

\* a plausible slip: the infeasible branches do not step past mid
WBranchStuck(f, curr_h) ==
  IF curr_h = -1 THEN [f EXCEPT !.left = f.mid]
  ELSE IF curr_h > f.h THEN [f EXCEPT !.left = f.mid]
  ELSE [f EXCEPT !.min_w = f.mid, !.right = f.mid - 1]

\* the if / else if / else of the while loop of tui_text_w_get
WBranch(f, curr_h) ==
  IF curr_h = -1 THEN [f EXCEPT !.left = f.mid + 1]
  ELSE IF curr_h > f.h THEN [f EXCEPT !.left = f.mid + 1]
  ELSE [f EXCEPT !.min_w = f.mid, !.right = f.mid - 1]

NoScan == [index |-> 0]

ScanInit ==
  /\ \E t \in Texts, h \in Heights :
       search = [text |-> t, h |-> h, left |-> 1, right |-> Len(t),
                 min_w |-> Len(t), mid |-> 0, breaks |-> 0, fails |-> 0]
  /\ scan = NoScan
  /\ spc = "while"
  /\ ColorIdle /\ TextIdle /\ TreeIdle /\ RenderIdle

\* while (left <= right) holds: mid is computed and tui_text_h_get is called
WhileEnter ==
  /\ spc = "while"
  /\ search.left <= search.right
  /\ search' = [search EXCEPT !.mid = (search.left + search.right) \div 2]
  /\ scan' = HEnter((search.left + search.right) \div 2)
  /\ spc' = "for"
  /\ UNCHANGED <<colorVars, textVars, treeVars, renderVars>>

\* while (left <= right) fails: return min_w
WhileExit ==
  /\ spc = "while"
  /\ search.left > search.right
  /\ spc' = "done"
  /\ UNCHANGED <<search, scan, colorVars, textVars, treeVars, renderVars>>

\* one iteration of the for loop that does not return
ForIter ==
  /\ spc = "for"
  /\ scan.index < Len(search.text)
  /\ ~HIter(search.text, scan).returned
  /\ scan' = HIter(search.text, scan)
  /\ search' = [search EXCEPT !.breaks =
                  IF scan'.last_space_index # scan.last_space_index
                    THEN @ + 1 ELSE @]
  /\ UNCHANGED <<spc, colorVars, textVars, treeVars, renderVars>>

\* the iteration that returns -1; tui_text_w_get goes on with curr_h = -1
ForFail ==
  /\ spc = "for"
  /\ scan.index < Len(search.text)
  /\ HIter(search.text, scan).returned
  /\ scan' = HIter(search.text, scan)
  /\ search' = [WBranch(search, -1) EXCEPT !.fails = @ + 1]
  /\ spc' = "while"
  /\ UNCHANGED <<colorVars, textVars, treeVars, renderVars>>

\* index < length fails: return h; tui_text_w_get goes on with curr_h = h
ForExit ==
  /\ spc = "for"
  /\ scan.index >= Len(search.text)
  /\ scan' = [scan EXCEPT !.ret = scan.h, !.returned = TRUE]
  /\ search' = WBranch(search, scan.h)
  /\ spc' = "while"
  /\ UNCHANGED <<colorVars, textVars, treeVars, renderVars>>

ScanNext == WhileEnter \/ WhileExit \/ ForIter \/ ForFail \/ ForExit

SpecScan == ScanInit /\ [][ScanNext]_vars

\* the function runs on one thread that nothing stops: a step that can be
\* taken is taken
SpecScanLive == SpecScan /\ WF_vars(ScanNext)

(***************************************************************************)
(* The window tree.  Windows are numbered in creation order; a handle is a *)
(* window number or NULL.  Every list (tui->windows, menu->windows,        *)
(* parent->children) holds its windows in insertion order.                 *)
(***************************************************************************)
NULL == 0
Nodes == 1 .. MaxNodes
MenuIds == {1}

\* the owner of a list of windows
Root == <<"root", 0>>
MenuOwner(m) == <<"menu", m>>
NodeOwner(n) == <<"node", n>>

\* the allocations: the structs, the lists, the ncurses WINDOWs, the
\* plain-text caches and the borders
ArrayOf(o) ==
  IF o[1] = "root" THEN <<"windows", 0>>
  ELSE IF o[1] = "menu" THEN <<"mwindows", o[2]>>
  ELSE <<"children", o[2]>>

NodeKinds == {"node", "surface", "text", "border", "children"}

Allocs ==
  {<<"tui", 0>>, <<"menus", 0>>, <<"windows", 0>>}
    \cup {<<k, m>> : k \in {"menu", "mwindows"}, m \in MenuIds}
    \cup {<<k, n>> : k \in NodeKinds, n \in Nodes}

\* the list an owner holds, and its count, in S = [tui, menus, win, heap, bad]
Slots(S, o) ==
  IF o[1] = "root" THEN S.tui.windows
  ELSE IF o[1] = "menu" THEN S.menus[o[2]].windows
  ELSE S.win[o[2]].children

Count(S, o) ==
  IF o[1] = "root" THEN S.tui.window_count
  ELSE IF o[1] = "menu" THEN S.menus[o[2]].window_count
  ELSE S.win[o[2]].child_count

SlotSet(S, o, i, v) ==
  IF o[1] = "root" THEN [S EXCEPT !.tui.windows[i] = v]
  ELSE IF o[1] = "menu" THEN [S EXCEPT !.menus[o[2]].windows[i] = v]
  ELSE [S EXCEPT !.win[o[2]].children[i] = v]

\* the list pointer set to NULL and the count to 0
ListClear(S, o) ==
  IF o[1] = "root"
    THEN [S EXCEPT !.tui.windows = <<>>, !.tui.window_count = 0]
  ELSE IF o[1] = "menu"
    THEN [S EXCEPT !.menus[o[2]].windows = <<>>,
                   !.menus[o[2]].window_count = 0]
  ELSE [S EXCEPT !.win[o[2]].children = <<>>, !.win[o[2]].child_count = 0]

\* free() / delwin() of a non-NULL pointer to allocation a
Release(S, a) ==
  IF S.heap[a] = "live"
    THEN [S EXCEPT !.heap[a] = "freed"]
    ELSE [S EXCEPT !.bad = @ \cup {a}]

tui_ncurses_window_free(S, n) ==
  IF ~S.win[n].window THEN S
  ELSE [Release(S, <<"surface", n>>) EXCEPT !.win[n].window = FALSE]

RECURSIVE tui_window_free(_, _, _)
RECURSIVE WindowsFreeLoop(_, _, _)

\* tui_windows_free(&list, &count) of the list of owner o; a list pointer is
\* non-NULL exactly while its allocation is live
tui_windows_free(S, o) ==
  LET S1 == WindowsFreeLoop(S, o, 1)
      S2 == IF S1.heap[ArrayOf(o)] = "live" THEN Release(S1, ArrayOf(o)) ELSE S1
  IN  ListClear(S2, o)

\* the for loop of tui_windows_free, from entry i (1-based) on
WindowsFreeLoop(S, o, i) ==
  IF i > Count(S, o) THEN S
  ELSE WindowsFreeLoop(tui_window_free(S, o, i), o, i + 1)

\* tui_window_parent_free(&slot), slot being entry i of the list of o
tui_window_parent_free(S, o, i) ==
  LET n == Slots(S, o)[i]
      S1 == tui_windows_free(S, NodeOwner(n))
      S2 == tui_ncurses_window_free(S1, n)
      S3 == Release(S2, <<"node", n>>)
  IN  SlotSet(S3, o, i, NULL)

\* tui_window_text_free(&slot)
tui_window_text_free(S, o, i) ==
  LET n == Slots(S, o)[i]
      S1 == tui_ncurses_window_free(S, n)
      S2 == IF S1.win[n].has_text THEN Release(S1, <<"text", n>>) ELSE S1
      S3 == Release(S2, <<"node", n>>)
  IN  SlotSet(S3, o, i, NULL)

\* tui_window_free(&slot)
tui_window_free(S, o, i) ==
  IF Slots(S, o)[i] = NULL THEN S
  ELSE IF S.win[Slots(S, o)[i]].is_text THEN tui_window_text_free(S, o, i)
  ELSE tui_window_parent_free(S, o, i)

\* tui_menu_free(&tui->menus[i])
tui_menu_free(S, i) ==
  LET m == S.tui.menus[i]
  IN  IF m = NULL THEN S
      ELSE [Release(tui_windows_free(S, MenuOwner(m)), <<"menu", m>>)
              EXCEPT !.tui.menus[i] = NULL]

RECURSIVE MenusFreeLoop(_, _)
\* the for loop of tui_delete over tui->menus, from entry i (1-based) on
MenusFreeLoop(S, i) ==
  IF i > S.tui.menu_count THEN S
  ELSE MenusFreeLoop(tui_menu_free(S, i), i + 1)

\* tui_delete(&tui)
tui_delete(S) ==
  IF S.tui.is_null THEN S
  ELSE
    LET S1 == MenusFreeLoop(S, 1)
        S2 == IF S1.heap[<<"menus", 0>>] = "live"
                THEN Release(S1, <<"menus", 0>>) ELSE S1
        S3 == tui_windows_free(S2, Root)
        S4 == Release(S3, <<"tui", 0>>)
    IN  [S4 EXCEPT !.tui.is_null = TRUE]

(***************************************************************************)
(* Rendering.  R = [color, log, win, heap, bad, crashed]: tui->color, the  *)
(* ncurses calls made so far, the window structs, the allocations, and     *)
(* whether the pass dereferenced a NULL window.  Calls logged:             *)
(*   werase(w), fill = the attron of tui_window_fill, border_on = attron,  *)
(*   box(w), border_off = attroff, wrefresh(w), refresh().                 *)
(* curs_set(0) changes nothing that is modelled and is not logged.         *)
(***************************************************************************)
Ev(call, n, pair) == [call |-> call, win |-> n, pair |-> pair]

\* tui_border_draw(window) with its calls logged
BorderRender(R, n) ==
  LET border == R.win[n].border
      on == tui_color_on(R.color, border)
      off == tui_color_inherit(on, border)
  IN  IF border = NoBorder THEN R
      ELSE [R EXCEPT !.log = @ \o <<Ev("border_on", n, tui_ncurses_color_get(on)),
                                    Ev("box", n, 0),
                                    Ev("border_off", n, tui_ncurses_color_get(off))>>,
                     !.color = tui_border_draw(R.color, border)]

\* werase and tui_window_fill, the common start of both render functions
FillRender(R, n) ==
  LET c == tui_window_fill(R.color, R.win[n].color)
  IN  [R EXCEPT !.log = @ \o <<Ev("werase", n, 0),
                               Ev("fill", n, tui_ncurses_color_get(c))>>,
                !.color = c]

\* tui_window_text_render: the plain-text cache is freed if there is one and
\* extracted again; the glyphs drawn are those of tui_text_render
tui_window_text_render(R, n) ==
  LET R1 == FillRender(R, n)
      R2 == IF R1.win[n].has_text THEN Release(R1, <<"text", n>>) ELSE R1
  IN  [R2 EXCEPT !.heap[<<"text", n>>] = "live",
                 !.win[n].has_text = TRUE,
                 !.log = Append(@, Ev("wrefresh", n, 0))]

RECURSIVE tui_window_render(_, _)
RECURSIVE ChildrenRender(_, _, _)

\* the for loop of tui_window_parent_render, from index (0-based) on
ChildrenRender(R, n, index) ==
  IF R.crashed \/ ~(index < R.win[n].child_count) THEN R
  ELSE ChildrenRender(tui_window_render(R, R.win[n].children[index + 1]),
                      n, index + 1)

tui_window_parent_render(R, n) ==
  LET R1 == ChildrenRender(BorderRender(FillRender(R, n), n), n, 0)
  IN  IF R1.crashed THEN R1
      ELSE [R1 EXCEPT !.log = Append(@, Ev("wrefresh", n, 0))]

\* tui_window_render(window): window->is_text of a NULL window is a NULL
\* dereference, which ends the process
tui_window_render(R, n) ==
  IF n = NULL
    THEN [R EXCEPT !.crashed = TRUE, !.log = Append(@, Ev("segv", NULL, 0))]
  ELSE IF R.win[n].is_text THEN tui_window_text_render(R, n)
  ELSE tui_window_parent_render(R, n)

RECURSIVE WindowsRenderLoop(_, _, _)
\* the for loop of tui_windows_render: entries index, index - 1, ..., 1
WindowsRenderLoop(R, windows, index) ==
  IF R.crashed \/ index = 0 THEN R
  ELSE WindowsRenderLoop(tui_window_render(R, windows[index]), windows,
                         index - 1)

RECURSIVE WindowsRenderUp(_, _, _, _)
WindowsRenderUp(R, windows, index, count) ==
  IF R.crashed \/ index > count THEN R
  ELSE WindowsRenderUp(tui_window_render(R, windows[index]), windows,
                       index + 1, count)

\* a plausible slip: the list is walked in insertion order
tui_windows_render_forward(R, windows, count) ==
  WindowsRenderUp(R, windows, 1, count)

tui_windows_render(R, windows, count) == WindowsRenderLoop(R, windows, count)

\* tui_render(tui)
tui_render(S) ==
  LET R0 == [color |-> S.tui.color, log |-> <<>>, win |-> S.win,
             heap |-> S.heap, bad |-> S.bad, crashed |-> FALSE]
      R1 == tui_windows_render(R0, S.tui.windows, S.tui.window_count)
      menu == S.tui.menu
      R2 == IF menu # NULL /\ ~R1.crashed
              THEN tui_windows_render(R1, S.menus[menu].windows,
                                      S.menus[menu].window_count)
              ELSE R1
  IN  IF R2.crashed THEN R2
      ELSE [R2 EXCEPT !.log = Append(@, Ev("refresh", NULL, 0))]

(***************************************************************************)
(* Spec: a tree as a program builds it, rendered any number of times and   *)
(* deleted.  SpecFree: the same, with single windows destroyed as well.    *)
(***************************************************************************)
Owners == {Root} \cup {MenuOwner(m) : m \in MenuIds}
            \cup {NodeOwner(p) : p \in Nodes}

\* the declared colours the trees are built from: windows created one after
\* the other alternate between the two, starting with either
Palette ==
  <<[fg |-> COLOR_WHITE, bg |-> COLOR_NONE],
    [fg |-> COLOR_NONE, bg |-> COLOR_RED]>>

Colouring(first) == [n \in Nodes |-> Palette[((n + first) % 2) + 1]]

\* the windows of owner o, in creation order
ListOf(own, o) ==
  SelectSeq([n \in Nodes |-> n], LAMBDA n : own[n] = o)

\* is_text[n], own[n]: a window is a child of an earlier parent window only
WellFormed(is_text, own) ==
  \A n \in Nodes :
    own[n][1] = "node" => own[n][2] < n /\ ~is_text[own[n][2]]

TreeInit ==
  /\ \E is_text \in [Nodes -> BOOLEAN] :
     \E own \in [Nodes -> Owners] :
       /\ WellFormed(is_text, own)
       /\ \E col \in {Colouring(first) : first \in {0, 1}} :
          \E bord \in [Nodes -> {NoBorder, TUI_COLOR_NONE}] :
          \E active \in MenuIds \cup {NULL} :
            /\ \A n \in Nodes : is_text[n] => bord[n] = NoBorder
            /\ win = [n \in Nodes |->
                       [is_text |-> is_text[n],
                        color |-> col[n],
                        parent |-> IF own[n][1] = "node" THEN own[n][2] ELSE NULL,
                        children |-> ListOf(own, NodeOwner(n)),
                        child_count |-> Len(ListOf(own, NodeOwner(n))),
                        border |-> bord[n],
                        has_text |-> FALSE,
                        window |-> TRUE]]
            /\ menus = [m \in MenuIds |->
                         [windows |-> ListOf(own, MenuOwner(m)),
                          window_count |-> Len(ListOf(own, MenuOwner(m)))]]
            /\ tui = [windows |-> ListOf(own, Root),
                      window_count |-> Len(ListOf(own, Root)),
                      menus |-> <<1>>,
                      menu_count |-> 1,
                      menu |-> active,
                      color |-> [fg |-> COLOR_BLACK, bg |-> COLOR_BLACK],
                      is_null |-> FALSE]
            /\ heap = [a \in Allocs |->
                        IF a[1] \in {"tui", "menus", "menu"} THEN "live"
                        ELSE IF a[1] = "windows"
                          THEN IF ListOf(own, Root) # <<>> THEN "live" ELSE "none"
                        ELSE IF a[1] = "mwindows"
                          THEN IF ListOf(own, MenuOwner(a[2])) # <<>>
                                 THEN "live" ELSE "none"
                        ELSE IF a[1] = "children"
                          THEN IF ListOf(own, NodeOwner(a[2])) # <<>>
                                 THEN "live" ELSE "none"
                        ELSE IF a[1] = "border"
                          THEN IF bord[a[2]] # NoBorder THEN "live" ELSE "none"
                        ELSE IF a[1] = "text" THEN "none"
                        ELSE "live"]
  /\ bad_free = {}
  /\ screen = <<>>
  /\ op = "init"
  /\ ColorIdle /\ TextIdle /\ RenderIdle /\ ScanIdle

State == [tui |-> tui, menus |-> menus, win |-> win, heap |-> heap,
          bad |-> bad_free]

Running == ~tui.is_null /\ op # "crashed"

\* tui_render(tui)
Render ==
  /\ Running
  /\ LET R == tui_render(State)
     IN  /\ tui' = [tui EXCEPT !.color = R.color]
         /\ win' = R.win
         /\ heap' = R.heap
         /\ bad_free' = R.bad
         /\ screen' = R.log
         /\ op' = IF R.crashed THEN "crashed" ELSE "render"
  /\ UNCHANGED <<menus, colorVars, textVars, renderVars, scanVars>>

\* tui_delete(&tui)
Delete ==
  /\ Running
  /\ LET S == tui_delete(State)
     IN  /\ tui' = S.tui
         /\ menus' = S.menus
         /\ win' = S.win
         /\ heap' = S.heap
         /\ bad_free' = S.bad
  /\ op' = "delete"
  /\ UNCHANGED <<screen, colorVars, textVars, renderVars, scanVars>>

\* the lists a caller can reach: the root's, the menus', and the children of
\* every window that is still allocated
LiveOwners ==
  {Root} \cup {MenuOwner(m) : m \in MenuIds}
    \cup {NodeOwner(p) : p \in {q \in Nodes : heap[<<"node", q>>] = "live"}}

\* tui_window_free(&list[i]) on a non-NULL entry of a list
WindowFree ==
  /\ Running
  /\ \E o \in LiveOwners :
     \E i \in 1 .. Count(State, o) :
       /\ Slots(State, o)[i] # NULL
       /\ LET S == tui_window_free(State, o, i)
          IN  /\ tui' = S.tui
              /\ menus' = S.menus
              /\ win' = S.win
              /\ heap' = S.heap
              /\ bad_free' = S.bad
  /\ op' = "window_free"
  /\ UNCHANGED <<screen, colorVars, textVars, renderVars, scanVars>>

Next == Render \/ Delete

Spec == TreeInit /\ [][Next]_vars

FreeNext == Render \/ Delete \/ WindowFree

SpecFree == TreeInit /\ [][FreeNext]_vars

(***************************************************************************)
(* Claims about the colour model (SpecColor).                              *)
(***************************************************************************)

\* C2: tui_color_inherit works per channel: a declared channel equal to
\* COLOR_NONE is replaced by the active colour's channel, any other declared
\* channel is kept; so resolving {none, none} gives the active colour and
\* resolving a fully concrete colour gives that colour.
C2_InheritPerChannel ==
  cpc = "inherit" =>
    /\ ret.fg = (IF arg.fg = COLOR_NONE THEN color.fg ELSE arg.fg)
    /\ ret.bg = (IF arg.bg = COLOR_NONE THEN color.bg ELSE arg.bg)
    /\ (arg = TUI_COLOR_NONE => ret = color)
    /\ (arg.fg # COLOR_NONE /\ arg.bg # COLOR_NONE => ret = arg)

\* the mixed case: one channel inherited, the other declared, and the two
\* channels of the active colour differ
C2_Witness ==
  /\ cpc = "inherit"
  /\ arg.fg = COLOR_NONE /\ arg.bg = COLOR_RED
  /\ color.fg = COLOR_WHITE /\ color.bg = COLOR_NONE
  /\ ret = [fg |-> COLOR_WHITE, bg |-> COLOR_RED]

\* C3: after tui_color_on(tui, C) followed by tui_color_off(tui, C), and
\* after the on/off pair of a border draw, the active colour is again the
\* colour that was active before the turn-on.
C3_OnOffSymmetric ==
  /\ (cpc = "off" => color = prev)
  /\ (cpc = "border" => color = prev)

(***************************************************************************)
(* Claims about text reflow (SpecText).                                    *)
(***************************************************************************)
IsWordChar(c) == c # " " /\ c # "\n"

\* t holds a word (a maximal run of characters other than space and
\* newline) of more than w characters
HasLongWord(t, w) ==
  \E i \in 1 .. Len(t) - w : \A j \in i .. i + w : IsWordChar(t[j])

\* C4: tui_text_h_get returns -1 exactly when the text holds a word longer
\* than max_w, and a line count >= 1 otherwise.
C4_FailsIffLongWord ==
  tpc = "h" =>
    /\ (h_ret = -1 <=> HasLongWord(text, max_w))
    /\ (h_ret # -1 => h_ret >= 1)

\* the widths at which t wraps without failure into at most h lines
Feasible(t, h) ==
  {w \in 1 .. Len(t) :
     /\ tui_text_h_get(t, w) # -1
     /\ tui_text_h_get(t, w) <= h}

\* C5: when some width in [1, length] wraps the text without failure into at
\* most h lines, tui_text_w_get returns the smallest such width; for
\* "one two three" and height 2 that is 7.
C5_MinimalWidth ==
  tpc = "w" =>
    /\ (Feasible(text, h_arg) # {} =>
          /\ w_ret \in Feasible(text, h_arg)
          /\ \A w \in Feasible(text, h_arg) : w_ret <= w)
    /\ (text = OneTwoThree /\ h_arg = 2 => w_ret = 7)

\* the example of the claim: a width smaller than the result fails, another
\* one gives too many lines
C5_Witness ==
  /\ tpc = "w" /\ text = OneTwoThree /\ h_arg = 2 /\ w_ret = 7
  /\ tui_text_h_get(text, 3) = -1
  /\ tui_text_h_get(text, 6) = 3

\* C6: for widths w1 <= w2 with no word longer than w1 the height at w1 is at
\* least the height at w2, and the minimal width for the height at w1 is at
\* most w1.
C6_Monotonic ==
  ~HasLongWord(text, max_w) =>
    /\ (tpc = "h" =>
          \A w2 \in max_w .. MaxLen + 1 : h_ret >= tui_text_h_get(text, w2))
    /\ (tpc = "ws" => w_ret <= max_w)

RECURSIVE SumFirst(_, _)
\* q[1] + ... + q[n]
SumFirst(q, n) == IF n <= 0 THEN 0 ELSE q[n] + SumFirst(q, n - 1)

\* t holds a letter and no newline
PlainLine(t) ==
  /\ \E i \in 1 .. Len(t) : IsWordChar(t[i])
  /\ \A i \in 1 .. Len(t) : t[i] # "\n"

\* C7: for a text that wraps without failure into h lines, tui_text_ws_get
\* writes h line widths, and they sum to the length of the text minus the
\* number of spaces dropped at line starts and breaks.  Stated here for the
\* texts that hold a letter and no newline; the claim says it of every text.
C7_LineWidths ==
  tpc = "ws" /\ h_ret # -1 /\ PlainLine(text) =>
    /\ ws_ret.written = 0 .. h_ret - 1
    /\ ~ws_ret.oob
    /\ SumFirst(ws_ret.ws, h_ret) = Len(text) - Cardinality(ws_ret.dropped)

(***************************************************************************)
(* Claims about rendering and destruction (Spec, SpecFree).                *)
(***************************************************************************)
RECURSIVE Effective(_, _, _)
\* the colour window n paints with when every window resolves its declared
\* colour against its parent's effective colour, top-level windows against
\* start
Effective(w, n, start) ==
  IF w[n].parent = NULL THEN tui_color_inherit(start, w[n].color)
  ELSE tui_color_inherit(Effective(w, w[n].parent, start), w[n].color)

C1_Step ==
  op' = "render" =>
    \A k \in 1 .. Len(screen') :
      screen'[k].call = "fill" =>
        screen'[k].pair =
          tui_ncurses_color_get(Effective(win, screen'[k].win, tui.color))

\* C1: in a render pass every window is filled with its declared colour
\* resolved against the effective colour of its parent container (a top-level
\* window: against the active colour at the start of the pass), whatever was
\* rendered before it and whether or not the parent has a border.
C1_FillAgainstParent == [][C1_Step]_vars

RECURSIVE Reverse(_)
Reverse(q) == IF q = <<>> THEN <<>> ELSE Append(Reverse(Tail(q)), Head(q))

\* the windows erased by the pass, in order, top-level windows only
TopLevelRendered ==
  LET tops == SelectSeq(screen,
                LAMBDA e : e.call = "werase" /\ win[e.win].parent = NULL)
  IN  [k \in 1 .. Len(tops) |-> tops[k].win]

RECURSIVE InSubtree(_, _)
\* window n is r or a descendant of r
InSubtree(n, r) ==
  n = r \/ (win[n].parent # NULL /\ InSubtree(win[n].parent, r))

\* the windows of the menus that are not active, with their descendants
InactiveWindows ==
  {n \in Nodes :
     \E m \in MenuIds \ {tui.menu} :
       \E i \in 1 .. Len(menus[m].windows) : InSubtree(n, menus[m].windows[i])}

\* C8: a render pass renders the root's top-level windows in reverse
\* insertion order, then the active menu's (if there is one) in reverse
\* insertion order, never a window of a menu that is not active, and calls
\* refresh() exactly once, after everything else.
C8_RenderOrder ==
  op = "render" =>
    /\ TopLevelRendered =
         Reverse(tui.windows)
           \o (IF tui.menu # NULL THEN Reverse(menus[tui.menu].windows)
               ELSE <<>>)
    /\ \A k \in 1 .. Len(screen) : screen[k].win \notin InactiveWindows
    /\ Len(screen) >= 1
    /\ \A k \in 1 .. Len(screen) :
         screen[k].call = "refresh" <=> k = Len(screen)

\* two root windows and an active menu with a window of its own
C8_Witness ==
  /\ op = "render"
  /\ tui.window_count >= 2
  /\ tui.menu # NULL
  /\ menus[tui.menu].window_count >= 1
  /\ TopLevelRendered = <<tui.windows[2], tui.windows[1]>>
                          \o Reverse(menus[tui.menu].windows)

\* every list entry that holds window n
HandlesTo(n) ==
  {<<o, i>> \in Owners \X (1 .. MaxNodes) :
     /\ i <= Len(Slots(State, o))
     /\ Slots(State, o)[i] = n}

\* C9: destruction releases everything exactly once: once a window has been
\* destroyed, the nodes of its whole subtree, their child lists, ncurses
\* WINDOWs, plain-text caches and borders are released, nothing was released
\* twice and no handle to the window is left; after tui_delete nothing at all
\* is left allocated.
C9_DestroyReleasesAll ==
  /\ bad_free = {}
  /\ \A n \in Nodes :
       heap[<<"node", n>>] = "freed" =>
         /\ \A d \in Nodes : \A k \in NodeKinds :
              InSubtree(d, n) => heap[<<k, d>>] # "live"
         /\ HandlesTo(n) = {}
  /\ (tui.is_null => \A a \in Allocs : heap[a] # "live")

\* the windows of container p that are still allocated
LiveChildren(p) ==
  {d \in Nodes : win[d].parent = p /\ heap[<<"node", d>>] = "live"}

\* C10: when a child of a container is destroyed and the container stays, the
\* child count of the container goes down by one (so it keeps counting the
\* children that are left), and a later render of the container visits only
\* windows, never a NULL entry.
C10_ChildDestroyed ==
  /\ \A p \in Nodes :
       heap[<<"node", p>>] = "live" /\ ~win[p].is_text =>
         win[p].child_count = Cardinality(LiveChildren(p))
  /\ (/\ op = "crashed"
      /\ \A i \in 1 .. tui.window_count : tui.windows[i] # NULL
      /\ tui.menu # NULL =>
           \A i \in 1 .. menus[tui.menu].window_count :
             menus[tui.menu].windows[i] # NULL)
     => FALSE

(***************************************************************************)
(* Claims about rendering a display string (SpecRender).                   *)
(***************************************************************************)
\* the cells and characters of a sequence of waddch calls
Glyphs(calls) ==
  [i \in 1 .. Len(calls) |-> <<calls[i].y, calls[i].x, calls[i].ch>>]

\* the indexes of the characters of s that belong to an escape sequence:
\* from an ESC up to and including the closing "m"
RECURSIVE EscapeIndexes(_, _)
EscapeIndexes(s, index) ==
  IF index >= Len(s) THEN {}
  ELSE IF s[index + 1] = ESC
    THEN ((index .. SkipEscape(s, index)) \cap (0 .. Len(s) - 1))
         \cup EscapeIndexes(s, SkipEscape(s, index) + 1)
    ELSE EscapeIndexes(s, index + 1)

\* the characters of t that a rendering has to draw, in order: all but the
\* newlines and the spaces dropped at a line start or at a break
Kept(t, w) ==
  LET dropped == tui_text_ws_get(t, tui_text_h_get(t, w)).dropped
  IN  SelectSeq([i \in 1 .. Len(t) |-> <<i - 1, t[i]>>],
                LAMBDA p : p[2] # "\n" /\ p[1] \notin dropped)

\* C11: tui_text_render of a display string draws the same characters at
\* the same cells as tui_text_render of its plain text; no character of an
\* escape sequence is passed to waddch; every character of the plain text
\* that is not a dropped space or a newline is drawn exactly once, in order;
\* and ws is never read at or beyond h.  Said of the strings whose plain
\* text is not empty and wraps at rect.w (h >= 1).
C11_EscapeAwareRender ==
  rpc = "render" /\ painted.text # <<>> /\ painted.h >= 1 =>
    LET plain == tui_text_render(painted.text, painted.text, rect_w,
                                 painted.garbage)
        kept == Kept(painted.text, rect_w)
    IN  /\ Glyphs(painted.calls) = Glyphs(plain.calls)
        /\ \A i \in 1 .. Len(painted.calls) :
             painted.calls[i].index \notin EscapeIndexes(string, 0)
        /\ Len(painted.calls) = Len(kept)
        /\ \A i \in 1 .. Len(kept) : painted.calls[i].ch = kept[i][2]
        /\ ~painted.oob

(***************************************************************************)
(* Claims about termination (SpecScanLive).                                *)
(***************************************************************************)
\* a step of the binary search shrinks the interval [left, right]
IntervalShrinks ==
  spc = "for" /\ spc' = "while" =>
    search'.right - search'.left < search.right - search.left

\* a forced break that moves the index back moves it to a space further to
\* the right than the space of every forced break before it
BreaksAdvance ==
  spc = "for" /\ spc' = "for" /\ scan'.index <= scan.index =>
    /\ scan'.last_space_index > scan.last_space_index
    /\ scan'.index = scan'.last_space_index + 1

\* C12: tui_text_w_get terminates on every text and every target height:
\* each step of the binary search over [1, length] shrinks the interval;
\* a scan of tui_text_h_get that moves its index back moves it to a space
\* further right than before (a second forced break at the same space
\* returns -1), so every scan ends; and the search ends, with the value the
\* function computes.
C12_Terminates ==
  /\ [][IntervalShrinks /\ BreaksAdvance]_vars
  /\ [](spc = "done" =>
          search.min_w = tui_text_w_get(search.text, search.h))
  /\ <>(spc = "done")

\* a search is over in which scans moved their index back to a space and a
\* scan failed at a second forced break
C12_Witness ==
  /\ spc = "done"
  /\ Len(search.text) = MaxLen
  /\ search.breaks >= 2
  /\ search.fails >= 1
  /\ scan.last_space_index > 0

====
